---- MODULE Spec2Model ----
(***************************************************************************)
(* A model of the block-sparse tensor engine of pyblock3                   *)
(* (src/pyblock3/tensor.py): SparseTensor.truncate_singular_values,        *)
(* contract, left_multiply / right_multiply, init_from_state_info,         *)
(* left_compress / right_compress and left_canonicalize /                  *)
(* right_canonicalize.                                                     *)
(*                                                                         *)
(* tensor.py calls groupby and accumulate without importing them; they are *)
(* read as itertools.groupby and itertools.accumulate.                     *)
(*                                                                         *)
(* Every operation is a synchronous call: a state holds the name of the    *)
(* operation (op), the position of the call (pc: "call" before the body    *)
(* has run, "done" after it), the object the method is bound to (self,     *)
(* with self0 the value it had when the call was made), the arguments      *)
(* (args) and the returned value (ret).                                    *)
(*                                                                         *)
(* Python lists and tuples are sequences; list positions are 0-based in    *)
(* the source and 1-based here, so position p of the source is element     *)
(* p + 1.  Leg positions passed as arguments (idxa, idxb) keep their       *)
(* 0-based source values.                                                  *)
(***************************************************************************)
EXTENDS Integers, Sequences, FiniteSets, TLC

VARIABLES op, pc, self, self0, args, ret

vars == <<op, pc, self, self0, args, ret>>

(***************************************************************************)
(* Bounds of the model.                                                    *)
(***************************************************************************)
MaxGroups == 2
MaxTotal == 4
MaxVal == 2
MaxK == 3
MaxLabel == 1
MaxBlocks == 2

(***************************************************************************)
(* Generic helpers.                                                        *)
(***************************************************************************)
Range(s) == {s[i] : i \in 1..Len(s)}

SeqsUpTo(S, n) == UNION {[1..m -> S] : m \in 0..n}

RECURSIVE SumSeq(_)
SumSeq(s) == IF s = <<>> THEN 0 ELSE Head(s) + SumSeq(Tail(s))

RECURSIVE Concat(_)
Concat(ss) == IF ss = <<>> THEN <<>> ELSE Head(ss) \o Concat(Tail(ss))

RECURSIVE SetSum(_, _)
SetSum(S, f) ==
    IF S = {} THEN 0
    ELSE LET x == CHOOSE y \in S : TRUE IN f[x] + SetSum(S \ {x}, f)

\* Python's None and a present value, for Optional results.
None == [some |-> FALSE, v |-> <<>>]
Some(x) == [some |-> TRUE, v |-> x]

\* The value of fields a call does not use.
Unused == <<>>

(***************************************************************************)
(* SparseTensor.truncate_singular_values(svd_s, k, cutoff).                *)
(* A triple is [i, j, v]: group i and local index j (both 0-based, as in   *)
(* the source) and the singular value v.                                   *)
(*                                                                         *)
(* list.sort(key=...) is stable: elements with equal keys keep their       *)
(* relative order.  It is modelled as a stable insertion sort, in which    *)
(* each element is inserted after every element whose key is not greater.  *)
(***************************************************************************)
\* ss = [(i, j, v) for i, ps in enumerate(svd_s) for j, v in enumerate(ps)]
Triples(svd_s) ==
    Concat([i \in 1..Len(svd_s) |->
              [j \in 1..Len(svd_s[i]) |-> [i |-> i - 1, j |-> j - 1, v |-> svd_s[i][j]]]])

\* key=lambda x: -x[2]
ByValueDesc(x, y) == -x.v < -y.v

\* key=lambda x: (x[0], x[1])
ByGroupIndex(x, y) == x.i < y.i \/ (x.i = y.i /\ x.j < y.j)

RECURSIVE InsertByValueDesc(_, _)
InsertByValueDesc(sorted, x) ==
    IF sorted = <<>> THEN <<x>>
    ELSE IF ByValueDesc(x, Head(sorted)) THEN <<x>> \o sorted
    ELSE <<Head(sorted)>> \o InsertByValueDesc(Tail(sorted), x)

\* ss.sort(key=lambda x: -x[2])
RECURSIVE SortByValueDesc(_)
SortByValueDesc(s) ==
    IF s = <<>> THEN <<>>
    ELSE InsertByValueDesc(SortByValueDesc(SubSeq(s, 1, Len(s) - 1)), s[Len(s)])

RECURSIVE InsertByGroupIndex(_, _)
InsertByGroupIndex(sorted, x) ==
    IF sorted = <<>> THEN <<x>>
    ELSE IF ByGroupIndex(x, Head(sorted)) THEN <<x>> \o sorted
    ELSE <<Head(sorted)>> \o InsertByGroupIndex(Tail(sorted), x)

RECURSIVE SortByGroupIndex(_)
SortByGroupIndex(s) ==
    IF s = <<>> THEN <<>>
    ELSE InsertByGroupIndex(SortByGroupIndex(SubSeq(s, 1, Len(s) - 1)), s[Len(s)])

\* ss_trunc = [x for x in ss if x[2] >= cutoff]
AboveCutoff(ss, cutoff) == SelectSeq(ss, LAMBDA x : x.v >= cutoff)

FirstK_Unbounded(ss, k) == ss

\* ss_trunc[:k] if k != -1 else ss_trunc   (k >= 0 or k = -1)
FirstK(ss, k) == IF k # -1 THEN SubSeq(ss, 1, IF k < Len(ss) THEN k ELSE Len(ss)) ELSE ss

\* ss_trunc.sort(key=lambda x: (x[0], x[1]))
ResortKept(ss) == SortByGroupIndex(ss)

\* The kept triples, in the order the grouping loop reads them.
SsTrunc(svd_s, k, cutoff) ==
    ResortKept(FirstK(AboveCutoff(SortByValueDesc(Triples(svd_s)), cutoff), k))

\* itertools.groupby(ss_trunc, key=lambda x: x[0]): the maximal runs of
\* consecutive triples with the same group, in order.
RECURSIVE GroupBy(_)
GroupBy(ss) ==
    IF ss = <<>> THEN <<>>
    ELSE LET key == Head(ss).i
             n == IF \E p \in 1..Len(ss) : ss[p].i # key
                  THEN (CHOOSE p \in 1..Len(ss) :
                           ss[p].i # key /\ \A q \in 1..(p - 1) : ss[q].i = key) - 1
                  ELSE Len(ss)
         IN <<[ik |-> key, g |-> SubSeq(ss, 1, n)]>> \o GroupBy(SubSeq(ss, n + 1, Len(ss)))

\* (svd_s[ik][gl_inv] ** 2).sum() with gl_inv = set(range(len(svd_s[ik]))) - set(gl)
DroppedSq(ps, gl) ==
    SetSum({j \in 0..(Len(ps) - 1) : j \notin Range(gl)},
           [j \in 0..(Len(ps) - 1) |-> ps[j + 1] * ps[j + 1]])

\* (svd_s[ik] ** 2).sum()
WholeSq(ps) == SumSeq([j \in 1..Len(ps) |-> ps[j] * ps[j]])

\* The loop over the runs of groupby: each run assigns gls[ik] and svd_r[ik]
\* and adds the squares of the values of the group it does not keep.
RECURSIVE GroupLoop(_, _, _)
GroupLoop(runs, svd_s, acc) ==
    IF runs = <<>> THEN acc
    ELSE LET ik == Head(runs).ik + 1
             gl == [p \in 1..Len(Head(runs).g) |-> Head(runs).g[p].j]
         IN GroupLoop(Tail(runs), svd_s,
                [svd_r |-> [acc.svd_r EXCEPT ![ik] =
                               Some([p \in 1..Len(gl) |-> svd_s[ik][gl[p] + 1]])],
                 gls |-> [acc.gls EXCEPT ![ik] = Some(gl)],
                 error |-> acc.error + DroppedSq(svd_s[ik], gl)])

UnkeptGroupsSq_Skipped(svd_s, gls) == 0

\* for ik in range(len(svd_s)): if gls[ik] is None: error += (svd_s[ik] ** 2).sum()
UnkeptGroupsSq(svd_s, gls) ==
    SumSeq([ik \in 1..Len(svd_s) |-> IF gls[ik].some THEN 0 ELSE WholeSq(svd_s[ik])])

\* The returned (svd_r, gls, np.sqrt(error)); error2 is the accumulated sum
\* of squares `error`, of which the third returned value is the square root.
truncate_singular_values(svd_s, k, cutoff) ==
    LET acc0 == [svd_r |-> [ik \in 1..Len(svd_s) |-> None],
                 gls |-> [ik \in 1..Len(svd_s) |-> None],
                 error |-> 0]
        acc == GroupLoop(GroupBy(SsTrunc(svd_s, k, cutoff)), svd_s, acc0)
    IN [svd_r |-> acc.svd_r, gls |-> acc.gls,
        error2 |-> acc.error + UnkeptGroupsSq(svd_s, acc.gls)]

\* The worked example of the specification: groups [5, 3, 1] and [4, 2].
ExampleSvd == <<<<5, 3, 1>>, <<4, 2>>>>

\* The list of arrays that holds the values of flat in groups of the lengths lens.
RECURSIVE SplitBy(_, _)
SplitBy(flat, lens) ==
    IF lens = <<>> THEN <<>>
    ELSE <<SubSeq(flat, 1, Head(lens))>>
            \o SplitBy(SubSeq(flat, Head(lens) + 1, Len(flat)), Tail(lens))

\* The explored lists of singular-value arrays: at most MaxGroups arrays (some
\* possibly empty) that hold at most MaxTotal values of 0..MaxVal between them,
\* in any order, and the worked example.
SvdInputs ==
    UNION {{SplitBy(flat, lens) :
               lens \in {x \in SeqsUpTo(0..MaxTotal, MaxGroups) : SumSeq(x) = Len(flat)}} :
           flat \in SeqsUpTo(0..MaxVal, MaxTotal)}
       \cup {ExampleSvd}

InitTruncate ==
    /\ op = "truncate_singular_values"
    /\ pc = "call"
    /\ self = Unused
    /\ self0 = Unused
    /\ \E svd_s \in SvdInputs, k \in -1..MaxK, cutoff \in 0..MaxVal :
          args = [svd_s |-> svd_s, k |-> k, cutoff |-> cutoff]
    /\ ret = Unused

Truncate ==
    /\ op = "truncate_singular_values"
    /\ pc = "call"
    /\ ret' = truncate_singular_values(args.svd_s, args.k, args.cutoff)
    /\ pc' = "done"
    /\ UNCHANGED <<op, self, self0, args>>

SpecTruncate == InitTruncate /\ [][Truncate]_vars

TruncDone == op = "truncate_singular_values" /\ pc = "done"

\* The position of triple (i, j) in the ordering of all values of all groups,
\* descending by value, ties by group and then by local index: the number of
\* triples before it.
GlobalPos(svd_s, i, j) ==
    Cardinality({t \in UNION {{<<i2, j2>> : j2 \in 1..Len(svd_s[i2])} : i2 \in 1..Len(svd_s)} :
                    /\ TRUE
                    /\ \/ svd_s[t[1]][t[2]] > svd_s[i][j]
                       \/ /\ svd_s[t[1]][t[2]] = svd_s[i][j]
                          /\ (t[1] < i \/ (t[1] = i /\ t[2] < j))})

\* Whether the policy keeps the value at (i, j) (1-based here).
PolicyKeeps(a, i, j) ==
    /\ a.svd_s[i][j] >= a.cutoff
    /\ (a.k = -1 \/ GlobalPos(a.svd_s, i, j) < a.k)

\* Whether the call reported (i, j) as kept.
ReportedKept(r, i, j) == r.gls[i].some /\ (j - 1) \in Range(r.gls[i].v)

IsAscending(s) == \A p \in 1..(Len(s) - 1) : s[p] < s[p + 1]

\* C1: a singular value is kept iff it is >= cutoff and among the first k of
\* the global descending order (k = -1: no bound); at most k are kept over all
\* groups; each group's kept-index list holds exactly its kept local indices in
\* ascending order (a group with nothing kept has no list: None), and svd_r holds
\* the values at those indices.
C1_TruncationPolicy ==
    TruncDone =>
        /\ \A i \in 1..Len(args.svd_s) :
              /\ \A j \in 1..Len(args.svd_s[i]) :
                    ReportedKept(ret, i, j) <=> PolicyKeeps(args, i, j)
              /\ ret.gls[i].some =>
                    /\ IsAscending(ret.gls[i].v)
                    /\ Len(ret.gls[i].v) > 0
                    /\ Range(ret.gls[i].v) \subseteq 0..(Len(args.svd_s[i]) - 1)
                    /\ ret.svd_r[i] =
                          Some([p \in 1..Len(ret.gls[i].v) |->
                                   args.svd_s[i][ret.gls[i].v[p] + 1]])
              /\ ret.svd_r[i].some = ret.gls[i].some
        /\ args.k # -1 =>
              SumSeq([i \in 1..Len(args.svd_s) |->
                         IF ret.gls[i].some THEN Len(ret.gls[i].v) ELSE 0]) <= args.k

\* C1 witness: two groups, the global bound cuts inside the second group's
\* values while the first group keeps a value the cutoff alone would allow more
\* of, and the kept indices of a group are not a prefix of it.
C1_Witness ==
    /\ TruncDone
    /\ Len(args.svd_s) = 2
    /\ args.k = 2
    /\ args.cutoff = 1
    /\ ret.gls[1] = Some(<<1>>)
    /\ ret.gls[2] = Some(<<0>>)
    /\ Len(args.svd_s[1]) = 2
    /\ Len(args.svd_s[2]) = 2
    /\ args.svd_s[2][2] >= args.cutoff

\* C2: the square of the reported error is the sum of the squares of every
\* value that was not kept, over every group.
C2_TruncationError ==
    TruncDone =>
        /\ ret.error2 =
              SumSeq([i \in 1..Len(args.svd_s) |->
                 SumSeq([j \in 1..Len(args.svd_s[i]) |->
                    IF ReportedKept(ret, i, j) THEN 0
                    ELSE args.svd_s[i][j] * args.svd_s[i][j]])])
        /\ (args.k = -1 /\ args.cutoff = 0) => ret.error2 = 0
        /\ (args.svd_s = ExampleSvd /\ args.k = 3 /\ args.cutoff = 0) =>
              /\ ret.error2 = 5
              /\ ret.gls = <<Some(<<0, 1>>), Some(<<0>>)>>

\* C2 witness: the worked example, and a run in which a whole group is dropped.
C2_Witness ==
    /\ TruncDone
    /\ args.svd_s = ExampleSvd
    /\ args.k = 3
    /\ args.cutoff = 0
    /\ ret.error2 = 5

C2_WitnessGroupDropped ==
    /\ TruncDone
    /\ Len(args.svd_s) = 2
    /\ ~ret.gls[2].some
    /\ ret.gls[1].some
    /\ ret.error2 > WholeSq(args.svd_s[2])
    /\ WholeSq(args.svd_s[2]) > 0
(***************************************************************************)
(* Quantum labels.  The label type (SZ) is a collaborator of the engine:   *)
(* a label is modelled by its particle number, `+` adds the numbers and a  *)
(* label is fermionic when the number is odd.                              *)
(***************************************************************************)
Labels == 0..MaxLabel

LabelAdd(a, b) == a + b

IsFermion(q) == q % 2 = 1

\* The dimension of a leg that carries label q.
LegDim(q) == 1 + (q % 2)

(***************************************************************************)
(* Dense arrays (numpy.ndarray): a shape and a value for every index       *)
(* tuple.  A rank-0 array has the empty shape and one value, at <<>>.      *)
(***************************************************************************)
RECURSIVE Indices(_)
Indices(shape) ==
    IF shape = <<>> THEN {<<>>}
    ELSE {<<i>> \o t : i \in 1..Head(shape), t \in Indices(Tail(shape))}

\* The position of x in the sequence s.
PosIn(s, x) == CHOOSE t \in 1..Len(s) : s[t] = x

RECURSIVE SetToSeqAsc(_)
SetToSeqAsc(S) ==
    IF S = {} THEN <<>>
    ELSE LET m == CHOOSE x \in S : \A y \in S : x <= y
         IN <<m>> \o SetToSeqAsc(S \ {m})

\* list(set(range(0, rank)) - set(idx)): the positions not contracted.  A set
\* of small non-negative integers is iterated in ascending order.
FreeAxes(rank, idx) == SetToSeqAsc((0..(rank - 1)) \ Range(idx))

\* np.tensordot(a, b, axes=(idxa, idxb)): the axes idxa of a are summed
\* against the axes idxb of b; the result has the free axes of a, then the
\* free axes of b, each in their original order.
TensorDot(a, b, idxa, idxb) ==
    LET fa == FreeAxes(Len(a.shape), idxa)
        fb == FreeAxes(Len(b.shape), idxb)
        cshape == [t \in 1..Len(idxa) |-> a.shape[idxa[t] + 1]]
        shape == [p \in 1..Len(fa) |-> a.shape[fa[p] + 1]]
                    \o [p \in 1..Len(fb) |-> b.shape[fb[p] + 1]]
        AIdx(o, c) == [p \in 1..Len(a.shape) |->
                          IF (p - 1) \in Range(idxa) THEN c[PosIn(idxa, p - 1)]
                          ELSE o[PosIn(fa, p - 1)]]
        BIdx(o, c) == [p \in 1..Len(b.shape) |->
                          IF (p - 1) \in Range(idxb) THEN c[PosIn(idxb, p - 1)]
                          ELSE o[Len(fa) + PosIn(fb, p - 1)]]
    IN [shape |-> shape,
        val |-> [o \in Indices(shape) |->
                    SetSum(Indices(cshape),
                           [c \in Indices(cshape) |->
                               a.val[AIdx(o, c)] * b.val[BIdx(o, c)]])]]

\* mat *= -1
Negate(mat) == [shape |-> mat.shape, val |-> [o \in DOMAIN mat.val |-> -mat.val[o]]]

\* reduced += mat
AddArrays(x, y) == [shape |-> x.shape, val |-> [o \in DOMAIN x.val |-> x.val[o] + y.val[o]]]

(***************************************************************************)
(* SubTensor and SparseTensor.                                             *)
(***************************************************************************)
SubTensor(q_labels, reduced) == [q_labels |-> q_labels, reduced |-> reduced]

\* SparseTensor.rank
Rank(blocks) == IF Len(blocks) = 0 THEN 0 ELSE Len(blocks[1].q_labels)

\* SparseTensor.__init__(blocks, ftype): with no ftype given the tag is
\* inferred from the rank, and a rank other than 3 or 4 raises RuntimeError.
SparseTensorInit(blocks, ftype) ==
    IF ftype = "None"
    THEN IF Rank(blocks) = 3
         THEN [kind |-> "SparseTensor", blocks |-> blocks,
               ftype |-> "ThreeIndexMPSTensor", value |-> 0]
         ELSE IF Rank(blocks) = 4
         THEN [kind |-> "SparseTensor", blocks |-> blocks,
               ftype |-> "FourIndexMPOTensor", value |-> 0]
         ELSE [kind |-> "RuntimeError", blocks |-> <<>>, ftype |-> "None", value |-> 0]
    ELSE [kind |-> "SparseTensor", blocks |-> blocks, ftype |-> ftype, value |-> 0]

(***************************************************************************)
(* SparseTensor.contract(spta, sptb, idxa, idxb).                          *)
(***************************************************************************)
\* idxa = [x if x >= 0 else spta.rank + x for x in idxa]
NormaliseLegs(idx, rank) == [t \in 1..Len(idx) |-> IF idx[t] >= 0 THEN idx[t] ELSE rank + idx[t]]

\* tuple(block.q_labels[id] for id in idx)
SubLabels(q_labels, idx) == [t \in 1..Len(idx) |-> q_labels[idx[t] + 1]]

\* The sign rule is selected when a four-leg operator tensor is contracted on
\* leg 2 with a three-leg state tensor on leg 1.
RuleSelected(spta, sptb, idxa, idxb) ==
    /\ spta.ftype = "FourIndexMPOTensor"
    /\ sptb.ftype = "ThreeIndexMPSTensor"
    /\ idxa = <<2>>
    /\ idxb = <<1>>

\* def fermion(qa, qb): False by default; under the rule,
\* (qa[1] + qa[2]).is_fermion and qb[0].is_fermion.
fermion(selected, qa, qb) ==
    IF selected THEN IsFermion(LabelAdd(qa[2], qa[3])) /\ IsFermion(qb[1]) ELSE FALSE

\* out_ftype
OutFtype(selected) == IF selected THEN "ThreeIndexMPSTensor" ELSE "None"

\* if fermion(block_a.q_labels, block_b.q_labels) / mat *= -1.  The source
\* line of the `if` has no colon and the assignment is not indented under it;
\* the statement is read as the guard it spells: the product is negated when
\* fermion(...) holds.
ApplySign(isFermion, mat) == IF isFermion THEN Negate(mat) ELSE mat

\* The matching pairs in the order the two loops visit them: for every block
\* of spta, the blocks of sptb with the same labels on the contracted legs, in
\* the order of sptb (map_idx_b keeps each list in insertion order).
MatchingPairs(ablocks, bblocks, idxa, idxb) ==
    Concat([i \in 1..Len(ablocks) |->
        LET hits == SelectSeq(bblocks, LAMBDA b :
                       SubLabels(b.q_labels, idxb) = SubLabels(ablocks[i].q_labels, idxa))
        IN [j \in 1..Len(hits) |-> [a |-> ablocks[i], b |-> hits[j]]]])

\* if outd not in map_idx_out: insert the block; else: reduced += mat.
\* map_idx_out is kept as the list of its values in insertion order.
AccumulateBlock(out, outg, mat) ==
    IF \E p \in 1..Len(out) : out[p].q_labels = outg
    THEN [p \in 1..Len(out) |->
            IF out[p].q_labels = outg
            THEN SubTensor(outg, AddArrays(out[p].reduced, mat))
            ELSE out[p]]
    ELSE Append(out, SubTensor(outg, mat))

RECURSIVE PairLoop(_, _, _, _, _, _, _)
PairLoop(pairs, idxa, idxb, out_idx_a, out_idx_b, selected, out) ==
    IF pairs = <<>> THEN out
    ELSE LET block_a == Head(pairs).a
             block_b == Head(pairs).b
             outg == SubLabels(block_a.q_labels, out_idx_a)
                        \o SubLabels(block_b.q_labels, out_idx_b)
             mat == ApplySign(fermion(selected, block_a.q_labels, block_b.q_labels),
                              TensorDot(block_a.reduced, block_b.reduced, idxa, idxb))
         IN PairLoop(Tail(pairs), idxa, idxb, out_idx_a, out_idx_b, selected,
                     AccumulateBlock(out, outg, mat))

contract(spta, sptb, idxa0, idxb0) ==
    LET idxa == NormaliseLegs(idxa0, Rank(spta.blocks))
        idxb == NormaliseLegs(idxb0, Rank(sptb.blocks))
        out_idx_a == FreeAxes(Rank(spta.blocks), idxa)
        out_idx_b == FreeAxes(Rank(sptb.blocks), idxb)
        selected == RuleSelected(spta, sptb, idxa, idxb)
        map_idx_out == PairLoop(MatchingPairs(spta.blocks, sptb.blocks, idxa, idxb),
                                idxa, idxb, out_idx_a, out_idx_b, selected, <<>>)
    IN IF Len(out_idx_a) + Len(out_idx_b) = 0
       THEN IF Len(map_idx_out) = 0
            THEN [kind |-> "scalar", blocks |-> <<>>, ftype |-> "None", value |-> 0]
            ELSE [kind |-> "scalar", blocks |-> <<>>, ftype |-> "None",
                  value |-> map_idx_out[1].reduced.val[<<>>]]
       ELSE SparseTensorInit(map_idx_out, OutFtype(selected))

(***************************************************************************)
(* The calls of contract that are explored.                                *)
(***************************************************************************)
\* An array of the given shape whose values differ from index to index.
Ramp(shape, c) ==
    [shape |-> shape,
     val |-> [o \in Indices(shape) |-> c + SumSeq([p \in 1..Len(o) |-> p * (o[p] - 1)])]]

BlockOf(q_labels, c) ==
    SubTensor(q_labels, Ramp([p \in 1..Len(q_labels) |-> LegDim(q_labels[p])], c))

\* The block lists of a given rank: at most MaxBlocks blocks with distinct
\* label tuples, every leg of label q having dimension LegDim(q).
BlockLists(rank, c) ==
    {[p \in 1..Len(qs) |-> BlockOf(qs[p], c + p)] :
        qs \in {x \in SeqsUpTo([1..rank -> Labels], MaxBlocks) :
                   \A i, j \in 1..Len(x) : i # j => x[i] # x[j]}}

ContractCases ==
    { [ra |-> 4, rb |-> 3, idxa |-> <<2>>, idxb |-> <<1>>,
       ta |-> {"FourIndexMPOTensor", "TwoSiteMPSTensor"}, tb |-> {"ThreeIndexMPSTensor"}],
      [ra |-> 3, rb |-> 3, idxa |-> <<2>>, idxb |-> <<0>>,
       ta |-> {"ThreeIndexMPSTensor"}, tb |-> {"ThreeIndexMPSTensor"}],
      [ra |-> 2, rb |-> 3, idxa |-> <<1>>, idxb |-> <<0>>,
       ta |-> {"LeftFusedMPSTensor"}, tb |-> {"ThreeIndexMPSTensor"}],
      [ra |-> 2, rb |-> 2, idxa |-> <<-1>>, idxb |-> <<0>>,
       ta |-> {"LeftFusedMPSTensor"}, tb |-> {"RightFusedMPSTensor"}],
      [ra |-> 2, rb |-> 2, idxa |-> <<0, 1>>, idxb |-> <<0, 1>>,
       ta |-> {"LeftFusedMPSTensor"}, tb |-> {"LeftFusedMPSTensor"}],
      [ra |-> 2, rb |-> 2, idxa |-> <<0, 1>>, idxb |-> <<1, 0>>,
       ta |-> {"LeftFusedMPSTensor"}, tb |-> {"RightFusedMPSTensor"}] }

InitContract ==
    /\ op = "contract"
    /\ pc = "call"
    /\ self = Unused
    /\ self0 = Unused
    /\ \E c \in ContractCases :
          \E ablocks \in BlockLists(c.ra, 0), bblocks \in BlockLists(c.rb, 2),
             fa \in c.ta, fb \in c.tb :
             args = [spta |-> [blocks |-> ablocks, ftype |-> fa],
                     sptb |-> [blocks |-> bblocks, ftype |-> fb],
                     idxa |-> c.idxa, idxb |-> c.idxb]
    /\ ret = Unused

Contract ==
    /\ op = "contract"
    /\ pc = "call"
    /\ ret' = contract(args.spta, args.sptb, args.idxa, args.idxb)
    /\ pc' = "done"
    /\ UNCHANGED <<op, self, self0, args>>

SpecContract == InitContract /\ [][Contract]_vars

ContractDone == op = "contract" /\ pc = "done"
(***************************************************************************)
(* What a contraction is required to return, stated from the operands.     *)
(***************************************************************************)
ArgIdxA == NormaliseLegs(args.idxa, Rank(args.spta.blocks))
ArgIdxB == NormaliseLegs(args.idxb, Rank(args.sptb.blocks))

\* The number of legs of the result.
OutputLegs ==
    Len(FreeAxes(Rank(args.spta.blocks), ArgIdxA))
       + Len(FreeAxes(Rank(args.sptb.blocks), ArgIdxB))

\* The pairs (position in A, position in B) with equal contracted-leg labels.
EqualLabelPairs ==
    {pr \in (1..Len(args.spta.blocks)) \X (1..Len(args.sptb.blocks)) :
        SubLabels(args.spta.blocks[pr[1]].q_labels, ArgIdxA)
           = SubLabels(args.sptb.blocks[pr[2]].q_labels, ArgIdxB)}

\* The output label tuple of a pair.
OutLabels(pr) ==
    SubLabels(args.spta.blocks[pr[1]].q_labels, FreeAxes(Rank(args.spta.blocks), ArgIdxA))
       \o SubLabels(args.sptb.blocks[pr[2]].q_labels, FreeAxes(Rank(args.sptb.blocks), ArgIdxB))

PairProduct(pr) ==
    TensorDot(args.spta.blocks[pr[1]].reduced, args.sptb.blocks[pr[2]].reduced,
              ArgIdxA, ArgIdxB)

\* The sum, at index o, of the products of the pairs in P, each with its sign.
SignedSum(P, o, Sgn(_)) == SetSum(P, [pr \in P |-> Sgn(pr) * PairProduct(pr).val[o]])

\* r holds one block per output label tuple of a pair with equal labels, and
\* each block is the sum of the products of its pairs, each with its sign.
IsSumOfPairs(r, Sgn(_)) ==
    /\ r.kind = "SparseTensor"
    /\ \A p, q \in 1..Len(r.blocks) : p # q => r.blocks[p].q_labels # r.blocks[q].q_labels
    /\ {r.blocks[p].q_labels : p \in 1..Len(r.blocks)} = {OutLabels(pr) : pr \in EqualLabelPairs}
    /\ \A p \in 1..Len(r.blocks) :
          LET P == {pr \in EqualLabelPairs : OutLabels(pr) = r.blocks[p].q_labels}
          IN \A o \in DOMAIN r.blocks[p].reduced.val :
                r.blocks[p].reduced.val[o] = SignedSum(P, o, Sgn)

NoSign(pr) == 1

\* The sign of the specification's rule: -1 when the parity of the combined
\* label of a (positions 1 and 2) differs from the parity of b's first label.
DisagreeSign(pr) ==
    LET qa == args.spta.blocks[pr[1]].q_labels
        qb == args.sptb.blocks[pr[2]].q_labels
    IN IF IsFermion(LabelAdd(qa[2], qa[3])) # IsFermion(qb[1]) THEN -1 ELSE 1

ArgRuleSelected == RuleSelected(args.spta, args.sptb, ArgIdxA, ArgIdxB)

\* C3: with at least one output leg, contract returns exactly one block per
\* output label tuple of a pair with equal contracted-leg labels, holding the
\* sum of the dense contractions of all the pairs that map to that tuple.
C3_ContractSums ==
    (ContractDone /\ OutputLegs > 0) => IsSumOfPairs(ret, NoSign)

\* C4: when no pair has equal labels on the contracted legs, contract returns
\* an empty collection if output legs remain and the scalar 0.0 if none do;
\* with all legs contracted and a matching pair it returns the accumulated scalar.
C4_ContractNoOverlap ==
    ContractDone =>
        /\ (EqualLabelPairs = {} /\ OutputLegs > 0) =>
              (ret.kind = "SparseTensor" /\ ret.blocks = <<>>)
        /\ (EqualLabelPairs = {} /\ OutputLegs = 0) =>
              (ret.kind = "scalar" /\ ret.value = 0)
        /\ (EqualLabelPairs # {} /\ OutputLegs = 0) => ret.kind = "scalar"

\* C5: a combination with no registered sign rule completes without an error
\* for every rank of the result, negates no pair, and returns a collection
\* whose tag is unresolved; the registered combination returns a three-leg
\* state tensor.
C5_ContractUnregistered ==
    ContractDone =>
        /\ ~ArgRuleSelected =>
              /\ ret.kind # "RuntimeError"
              /\ ret.kind = "SparseTensor" =>
                    (ret.ftype = "None" /\ IsSumOfPairs(ret, NoSign))
              /\ ret.kind = "scalar" => ret.value = SignedSum(EqualLabelPairs, <<>>, NoSign)
        /\ ArgRuleSelected =>
              (ret.kind = "SparseTensor" /\ ret.ftype = "ThreeIndexMPSTensor")

\* C6: under the registered combination a pair's contribution is negated
\* exactly when the parity of a's combined label (positions 1 and 2) differs
\* from the parity of b's first label; under any other combination no pair
\* is negated.
C6_ContractSign ==
    ContractDone =>
        /\ (ArgRuleSelected /\ ret.kind = "SparseTensor") => IsSumOfPairs(ret, DisagreeSign)
        /\ (~ArgRuleSelected /\ ret.kind = "SparseTensor") => IsSumOfPairs(ret, NoSign)
        /\ (~ArgRuleSelected /\ ret.kind = "scalar") =>
              ret.value = SignedSum(EqualLabelPairs, <<>>, NoSign)
(***************************************************************************)
(* SparseTensor.left_multiply(mats) and right_multiply(mats).              *)
(* mats is a dict: a function from the labels that are its keys to 2-D     *)
(* arrays.                                                                 *)
(***************************************************************************)
RECURSIVE left_multiply_keep(_, _)
left_multiply_keep(blocks, mats) ==
    IF blocks = <<>> THEN <<>>
    ELSE LET block == Head(blocks)
             q_label_r == block.q_labels[1]
         IN (IF q_label_r \in DOMAIN mats
             THEN <<SubTensor(block.q_labels,
                              TensorDot(mats[q_label_r], block.reduced, <<1>>, <<0>>))>>
             ELSE <<block>>) \o left_multiply_keep(Tail(blocks), mats)

\* The new value of self.blocks: for every block whose first label is a key
\* of mats, np.tensordot(mats[q], block.reduced, axes=([1], [0])).
RECURSIVE left_multiply(_, _)
left_multiply(blocks, mats) ==
    IF blocks = <<>> THEN <<>>
    ELSE LET block == Head(blocks)
             q_label_r == block.q_labels[1]
         IN (IF q_label_r \in DOMAIN mats
             THEN <<SubTensor(block.q_labels,
                              TensorDot(mats[q_label_r], block.reduced, <<1>>, <<0>>))>>
             ELSE <<>>) \o left_multiply(Tail(blocks), mats)

\* The new value of self.blocks: for every block whose last label is a key of
\* mats, np.tensordot(block.reduced, mats[q], axes=([block.rank - 1], [0])).
RECURSIVE right_multiply(_, _)
right_multiply(blocks, mats) ==
    IF blocks = <<>> THEN <<>>
    ELSE LET block == Head(blocks)
             q_label_l == block.q_labels[Len(block.q_labels)]
         IN (IF q_label_l \in DOMAIN mats
             THEN <<SubTensor(block.q_labels,
                              TensorDot(block.reduced, mats[q_label_l],
                                        <<Len(block.q_labels) - 1>>, <<0>>))>>
             ELSE <<>>) \o right_multiply(Tail(blocks), mats)

\* The labels of the middle (physical) leg of a state tensor: a site is empty
\* or occupied.
SiteLabels == {0, 1}

\* The label tuples of a three-leg state tensor: (l, m, l + m).
StateLabels == {<<l, m, LabelAdd(l, m)>> : l \in Labels, m \in SiteLabels}

\* The block lists of a three-leg state tensor: at most MaxBlocks blocks with
\* distinct label tuples.
StateBlockLists ==
    {[p \in 1..Len(qs) |-> BlockOf(qs[p], p)] :
        qs \in {x \in SeqsUpTo(StateLabels, MaxBlocks) :
                   \A i, j \in 1..Len(x) : i # j => x[i] # x[j]}}

\* The carry matrix maps: any set of boundary labels as keys; the matrix of
\* label q has LegDim(q) on the side that is contracted and one or two on the other.
LeftCarryMaps ==
    UNION {[K -> {1, 2}] : K \in SUBSET Labels}

RightCarryMaps ==
    UNION {[K -> {1, 2}] : K \in SUBSET {LabelAdd(l, m) : l \in Labels, m \in SiteLabels}}

InitMultiply ==
    /\ pc = "call"
    /\ \E blocks \in StateBlockLists :
          /\ self = [blocks |-> blocks, ftype |-> "ThreeIndexMPSTensor"]
          /\ self0 = self
    /\ \/ /\ op = "left_multiply"
          /\ \E n \in LeftCarryMaps :
                args = [mats |-> [q \in DOMAIN n |-> Ramp(<<n[q], LegDim(q)>>, q)]]
       \/ /\ op = "right_multiply"
          /\ \E n \in RightCarryMaps :
                args = [mats |-> [q \in DOMAIN n |-> Ramp(<<LegDim(q), n[q]>>, q)]]
    /\ ret = Unused

LeftMultiply ==
    /\ op = "left_multiply"
    /\ pc = "call"
    /\ self' = [self EXCEPT !.blocks = left_multiply(self.blocks, args.mats)]
    /\ pc' = "done"
    /\ UNCHANGED <<op, self0, args, ret>>

RightMultiply ==
    /\ op = "right_multiply"
    /\ pc = "call"
    /\ self' = [self EXCEPT !.blocks = right_multiply(self.blocks, args.mats)]
    /\ pc' = "done"
    /\ UNCHANGED <<op, self0, args, ret>>

SpecMultiply == InitMultiply /\ [][LeftMultiply \/ RightMultiply]_vars

\* The positions of the blocks of the call's collection whose label on the
\* given leg (1: first, 0: last) is a key of the carry map, ascending.
KeptPositions(first) ==
    SetToSeqAsc({p \in 1..Len(self0.blocks) :
        (IF first THEN self0.blocks[p].q_labels[1]
         ELSE self0.blocks[p].q_labels[Len(self0.blocks[p].q_labels)]) \in DOMAIN args.mats})

\* C7: after left_multiply the collection holds exactly the blocks whose
\* first label is a key of the carry map, in their original order and with
\* their label tuples, each block being the carry matrix contracted on its
\* second axis with the block's first leg; right_multiply is the mirror on the
\* last leg, contracted with the first axis of the matrix; the carry map is
\* not modified.
C7_CarryApplication ==
    /\ [](  (op = "left_multiply" /\ pc = "done") =>
              LET kept == KeptPositions(TRUE)
              IN /\ Len(self.blocks) = Len(kept)
                 /\ \A t \in 1..Len(kept) :
                       LET old == self0.blocks[kept[t]]
                           new == self.blocks[t]
                           M == args.mats[old.q_labels[1]]
                       IN /\ new.q_labels = old.q_labels
                          /\ new.reduced.shape = <<M.shape[1]>> \o Tail(old.reduced.shape)
                          /\ DOMAIN new.reduced.val = Indices(new.reduced.shape)
                          /\ \A o \in Indices(new.reduced.shape) :
                                new.reduced.val[o] =
                                   SumSeq([j \in 1..M.shape[2] |->
                                      M.val[<<o[1], j>>] * old.reduced.val[<<j>> \o Tail(o)]]))
    /\ [](  (op = "right_multiply" /\ pc = "done") =>
              LET kept == KeptPositions(FALSE)
              IN /\ Len(self.blocks) = Len(kept)
                 /\ \A t \in 1..Len(kept) :
                       LET old == self0.blocks[kept[t]]
                           new == self.blocks[t]
                           r == Len(old.q_labels)
                           M == args.mats[old.q_labels[r]]
                       IN /\ new.q_labels = old.q_labels
                          /\ new.reduced.shape =
                                SubSeq(old.reduced.shape, 1, r - 1) \o <<M.shape[2]>>
                          /\ DOMAIN new.reduced.val = Indices(new.reduced.shape)
                          /\ \A o \in Indices(new.reduced.shape) :
                                new.reduced.val[o] =
                                   SumSeq([j \in 1..M.shape[1] |->
                                      old.reduced.val[SubSeq(o, 1, r - 1) \o <<j>>]
                                         * M.val[<<j, o[r]>>]]))
    /\ [][args' = args /\ self0' = self0]_vars

\* C7 witness: a left multiplication that dropped a block and kept a later
\* one, whose first leg changed dimension.
C7_Witness ==
    /\ op = "left_multiply"
    /\ pc = "done"
    /\ Len(self0.blocks) = 2
    /\ Len(self.blocks) = 1
    /\ self.blocks[1].q_labels = self0.blocks[2].q_labels
    /\ self.blocks[1].reduced.shape[1] # self0.blocks[2].reduced.shape[1]
    /\ \E o \in DOMAIN self.blocks[1].reduced.val : self.blocks[1].reduced.val[o] > 1

\* C7 witness for the mirror: a right multiplication that dropped a block.
C7_WitnessRight ==
    /\ op = "right_multiply"
    /\ pc = "done"
    /\ Len(self0.blocks) = 2
    /\ Len(self.blocks) = 1
    /\ self.blocks[1].reduced.shape[3] # self0.blocks[1].reduced.shape[3]
    /\ self.blocks[1].q_labels = self0.blocks[1].q_labels
(***************************************************************************)
(* SparseTensor.init_from_state_info(l, m, r).                             *)
(* A leg-shape map (StateInfo) is modelled by its quanta: a function from  *)
(* the labels it holds to their dimensions, iterated in ascending order    *)
(* of the labels.                                                          *)
(***************************************************************************)
\* np.zeros(shape)
Zeros(shape) == [shape |-> shape, val |-> [o \in Indices(shape) |-> 0]]

\* quanta.items(): the (label, dimension) pairs of a leg-shape map.
Items(quanta) == {<<k, quanta[k]>> : k \in DOMAIN quanta}

\* kr in r.quanta.items(): membership in a dict's items view holds only of a
\* (key, value) pair of the dict; kr is a label, not a pair, so it is equal to
\* no item.
InItems(kr, quanta) == \E item \in Items(quanta) : <<kr>> = item

\* The two nested loops over l.quanta.items() and m.quanta.items().
StateInfoBlocks(l, m, r) ==
    LET ls == SetToSeqAsc(DOMAIN l)
        ms == SetToSeqAsc(DOMAIN m)
    IN Concat([i \in 1..Len(ls) |->
          Concat([j \in 1..Len(ms) |->
             LET kl == ls[i]
                 km == ms[j]
                 kr == LabelAdd(kl, km)
             IN IF InItems(kr, r)
                THEN <<SubTensor(<<kl, km, kr>>, Zeros(<<l[kl], m[km], r[kr]>>))>>
                ELSE <<>>])])

init_from_state_info(l, m, r) ==
    SparseTensorInit(StateInfoBlocks(l, m, r), "ThreeIndexMPSTensor")

LegShapeMaps(labels) == UNION {[K -> {1, 2}] : K \in SUBSET labels}

InitStateInfo ==
    /\ op = "init_from_state_info"
    /\ pc = "call"
    /\ self = Unused
    /\ self0 = Unused
    /\ \E l \in LegShapeMaps(Labels), m \in LegShapeMaps(SiteLabels),
          r \in LegShapeMaps({LabelAdd(a, b) : a \in Labels, b \in SiteLabels}) :
          args = [l |-> l, m |-> m, r |-> r]
    /\ ret = Unused

InitFromStateInfo ==
    /\ op = "init_from_state_info"
    /\ pc = "call"
    /\ ret' = init_from_state_info(args.l, args.m, args.r)
    /\ pc' = "done"
    /\ UNCHANGED <<op, self, self0, args>>

SpecStateInfo == InitStateInfo /\ [][InitFromStateInfo]_vars

\* C8: the returned collection holds exactly one zero-filled block with
\* labels (l, m, l + m) and shape (dim(l), dim(m), dim(l + m)) for every label
\* l of left and m of mid whose sum is a label of right, and no other block;
\* it is tagged three-leg state tensor.
C8_InitFromStateInfo ==
    (op = "init_from_state_info" /\ pc = "done") =>
        LET want == {<<pr[1], pr[2], LabelAdd(pr[1], pr[2])>> :
                        pr \in {x \in (DOMAIN args.l) \X (DOMAIN args.m) :
                                   LabelAdd(x[1], x[2]) \in DOMAIN args.r}}
        IN /\ ret.kind = "SparseTensor"
           /\ ret.ftype = "ThreeIndexMPSTensor"
           /\ \A q \in want :
                 Cardinality({p \in 1..Len(ret.blocks) : ret.blocks[p].q_labels = q}) = 1
           /\ \A p \in 1..Len(ret.blocks) :
                 /\ ret.blocks[p].q_labels \in want
                 /\ ret.blocks[p].reduced =
                       Zeros(<<args.l[ret.blocks[p].q_labels[1]],
                               args.m[ret.blocks[p].q_labels[2]],
                               args.r[ret.blocks[p].q_labels[3]]>>)
(***************************************************************************)
(* SparseTensor.left_compress(k, cutoff) and right_compress(k, cutoff).    *)
(*                                                                         *)
(* The entries of the arrays are abstracted here: a block keeps its label  *)
(* tuple and the shape of its array, and the collection keeps, for every   *)
(* boundary label, the singular values np.linalg.svd returns for the       *)
(* stacked matrix of the label's group (spectrum).  Singular values are    *)
(* non-negative and non-increasing, and there are min(rows, columns) of    *)
(* them (full_matrices=False).                                             *)
(***************************************************************************)
RECURSIVE Prod(_)
Prod(s) == IF s = <<>> THEN 1 ELSE Head(s) * Prod(Tail(s))

\* block.q_labels[-1] (left) or block.q_labels[0] (right)
BoundaryLabel(block, left) ==
    IF left THEN block.q_labels[Len(block.q_labels)] ELSE block.q_labels[1]

\* collected_rows / collected_cols: the blocks grouped by boundary label, the
\* groups in order of first appearance and each group in the order of the blocks.
RECURSIVE Collect(_, _, _)
Collect(blocks, left, acc) ==
    IF blocks = <<>> THEN acc
    ELSE LET q == BoundaryLabel(Head(blocks), left)
         IN Collect(Tail(blocks), left,
               IF \E g \in 1..Len(acc) : acc[g].q = q
               THEN [g \in 1..Len(acc) |->
                       IF acc[g].q = q
                       THEN [q |-> q, blocks |-> Append(acc[g].blocks, Head(blocks))]
                       ELSE acc[g]]
               ELSE Append(acc, [q |-> q, blocks |-> <<Head(blocks)>>]))

\* The shape of the stacked matrix of a group.  Left: the leading legs of
\* every block are flattened and the blocks are stacked by rows; right: the
\* trailing legs are flattened and the blocks are stacked by columns.
StackedShape(group, left) ==
    IF left
    THEN <<SumSeq([b \in 1..Len(group.blocks) |->
                     Prod(SubSeq(group.blocks[b].shape, 1, Len(group.blocks[b].shape) - 1))]),
           group.blocks[1].shape[Len(group.blocks[1].shape)]>>
    ELSE <<group.blocks[1].shape[1],
           SumSeq([b \in 1..Len(group.blocks) |-> Prod(Tail(group.blocks[b].shape))])>>

Min(a, b) == IF a < b THEN a ELSE b

FactorRank_Untruncated(gl, s) == Len(s)

\* if gl is not None and len(gl) != len(svd_s[ik]): blocks_l[ik][:, gl] and
\* blocks_r[ik][gl, :] -- the number of columns of u (rows of vh) afterwards.
FactorRank(gl, s) == IF gl.some /\ Len(gl.v) # Len(s) THEN Len(gl.v) ELSE Len(s)

\* The shape a block of a kept group is rewritten with.
CompressedShape(shape, left, n) ==
    IF left THEN SubSeq(shape, 1, Len(shape) - 1) \o <<n>> ELSE <<n>> \o Tail(shape)

\* numpy broadcasting of two lengths along one axis: equal lengths, or one
\* of them 1; anything else raises ValueError (-1 here).
Broadcast(a, b) == IF a = b THEN a ELSE IF a = 1 THEN b ELSE IF b = 1 THEN a ELSE -1

\* The shape of the carry matrix of a kept group: svd_r[ik][:, None] * vh
\* (left) or svd_r[ik][None, :] * u (right), with the factor sliced as above.
CarryShape(stacked, left, nkept, n) ==
    IF left THEN <<Broadcast(nkept, n), stacked[2]>> ELSE <<stacked[1], Broadcast(nkept, n)>>

\* The blocks of the returned collection: for every group whose svd_r is not
\* None, in the order of the groups, the blocks of the group in their order.
CompressedBlocks(collected, svd_s, t, left) ==
    Concat([ik \in 1..Len(collected) |->
        IF t.svd_r[ik].some
        THEN [b \in 1..Len(collected[ik].blocks) |->
                [q_labels |-> collected[ik].blocks[b].q_labels,
                 shape |-> CompressedShape(collected[ik].blocks[b].shape, left,
                                           FactorRank(t.gls[ik], svd_s[ik]))]]
        ELSE <<>>])

\* r_blocks_map / l_blocks_map: an entry for every group whose svd_r is not None.
CarryMap(collected, svd_s, t, left) ==
    [q \in {collected[ik].q : ik \in {g \in 1..Len(collected) : t.svd_r[g].some}} |->
        LET ik == CHOOSE g \in 1..Len(collected) : collected[g].q = q
        IN CarryShape(StackedShape(collected[ik], left), left,
                      Len(t.svd_r[ik].v), FactorRank(t.gls[ik], svd_s[ik]))]

\* left_compress (left = TRUE) and right_compress (left = FALSE): the returned
\* (SparseTensor, carry map, error).
compress(tensor, left, k, cutoff) ==
    LET collected == Collect(tensor.blocks, left, <<>>)
        svd_s == [ik \in 1..Len(collected) |-> tensor.spectrum[collected[ik].q]]
        t == truncate_singular_values(svd_s, k, cutoff)
    IN [tensor |-> SparseTensorInit(CompressedBlocks(collected, svd_s, t, left), tensor.ftype),
        carry |-> CarryMap(collected, svd_s, t, left),
        error2 |-> t.error2]

\* A block of a three-leg state tensor with its array reduced to its shape.
ShapeBlock(q_labels) ==
    [q_labels |-> q_labels, shape |-> [p \in 1..Len(q_labels) |-> LegDim(q_labels[p])]]

ShapeBlockLists ==
    {[p \in 1..Len(qs) |-> ShapeBlock(qs[p])] :
        qs \in {x \in SeqsUpTo(StateLabels, MaxBlocks) :
                   \A i, j \in 1..Len(x) : i # j => x[i] # x[j]}}

\* The non-increasing sequences of n values of 0..MaxVal.
Spectra(n) == {x \in [1..n -> 0..MaxVal] : \A p \in 1..(n - 1) : x[p] >= x[p + 1]}

\* The spectra a block list can have: one per boundary label, of the length
\* the stacked matrix of the label's group gives.
RECURSIVE SpectraLists(_)
SpectraLists(sizes) ==
    IF sizes = <<>> THEN {<<>>}
    ELSE {<<x>> \o rest : x \in Spectra(Head(sizes)), rest \in SpectraLists(Tail(sizes))}

SpectraOf(blocks, left) ==
    LET collected == Collect(blocks, left, <<>>)
        sizes == [ik \in 1..Len(collected) |->
                    Min(StackedShape(collected[ik], left)[1],
                        StackedShape(collected[ik], left)[2])]
    IN {[q \in {collected[ik].q : ik \in 1..Len(collected)} |->
            sl[CHOOSE ik \in 1..Len(collected) : collected[ik].q = q]] :
        sl \in SpectraLists(sizes)}

InitCompress ==
    /\ op \in {"left_compress", "right_compress"}
    /\ pc = "call"
    /\ \E blocks \in ShapeBlockLists :
          \E sp \in SpectraOf(blocks, op = "left_compress") :
             self = [blocks |-> blocks, ftype |-> "ThreeIndexMPSTensor", spectrum |-> sp]
    /\ self0 = self
    /\ \E k \in -1..MaxK, cutoff \in 0..MaxVal : args = [k |-> k, cutoff |-> cutoff]
    /\ ret = Unused

LeftCompress ==
    /\ op = "left_compress"
    /\ pc = "call"
    /\ ret' = compress(self, TRUE, args.k, args.cutoff)
    /\ pc' = "done"
    /\ UNCHANGED <<op, self, self0, args>>

RightCompress ==
    /\ op = "right_compress"
    /\ pc = "call"
    /\ ret' = compress(self, FALSE, args.k, args.cutoff)
    /\ pc' = "done"
    /\ UNCHANGED <<op, self, self0, args>>

SpecCompress == InitCompress /\ [][LeftCompress \/ RightCompress]_vars

CompressDone == op \in {"left_compress", "right_compress"} /\ pc = "done"

\* The groups of the call's collection as the claim names them: the distinct
\* boundary labels in order of first appearance.
GroupLabels(left) ==
    LET firsts == {p \in 1..Len(self.blocks) :
                      \A p2 \in 1..(p - 1) :
                         BoundaryLabel(self.blocks[p2], left) # BoundaryLabel(self.blocks[p], left)}
        ps == SetToSeqAsc(firsts)
    IN [g \in 1..Len(ps) |-> BoundaryLabel(self.blocks[ps[g]], left)]

\* The number of singular values each group keeps under the truncation
\* policy, the groups taken in order of first appearance.
KeptPerGroup(left) ==
    LET gl == GroupLabels(left)
        a == [svd_s |-> [x \in 1..Len(gl) |-> self.spectrum[gl[x]]],
              k |-> args.k, cutoff |-> args.cutoff]
    IN [g \in 1..Len(gl) |->
          Cardinality({j \in 1..Len(a.svd_s[g]) : PolicyKeeps(a, g, j)})]

\* The positions of the input blocks that must appear in the result, in the
\* order of the groups and, within a group, of the blocks.
SurvivingPositions(left, gl, kept) ==
    Concat([g \in 1..Len(gl) |->
       IF kept[g] > 0
       THEN SetToSeqAsc({p \in 1..Len(self.blocks) :
                            BoundaryLabel(self.blocks[p], left) = gl[g]})
       ELSE <<>>])

\* C10: the returned collection has a block, with the original label tuple
\* and in group order, for exactly the input blocks whose boundary-label group
\* keeps at least one singular value; the carry map has exactly those groups'
\* labels as keys; the new boundary dimension of every block of a kept group
\* is the number of values kept in the group and the matching dimension of
\* the group's carry matrix.
C10_CompressGroups ==
    CompressDone =>
        LET left == (op = "left_compress")
            gl == GroupLabels(left)
            kept == KeptPerGroup(left)
            keep == SurvivingPositions(left, gl, kept)
            out == ret.tensor.blocks
        IN /\ ret.tensor.kind = "SparseTensor"
           /\ Len(out) = Len(keep)
           /\ DOMAIN ret.carry = {gl[g] : g \in {x \in 1..Len(gl) : kept[x] > 0}}
           /\ \A t \in 1..Len(keep) :
                 LET old == self.blocks[keep[t]]
                     q == BoundaryLabel(old, left)
                     n == kept[CHOOSE x \in 1..Len(gl) : gl[x] = q]
                     r == Len(old.shape)
                 IN /\ out[t].q_labels = old.q_labels
                    /\ Len(out[t].shape) = r
                    /\ IF left
                       THEN /\ out[t].shape[r] = n
                            /\ ret.carry[q][1] = n
                            /\ SubSeq(out[t].shape, 1, r - 1) = SubSeq(old.shape, 1, r - 1)
                            /\ ret.carry[q][2] = old.shape[r]
                       ELSE /\ out[t].shape[1] = n
                            /\ ret.carry[q][2] = n
                            /\ Tail(out[t].shape) = Tail(old.shape)
                            /\ ret.carry[q][1] = old.shape[1]

\* C10 witness: a left compression of two groups in which the first group
\* keeps nothing and the second is cut to fewer values than it had.
C10_Witness ==
    /\ op = "left_compress"
    /\ pc = "done"
    /\ Len(GroupLabels(TRUE)) = 2
    /\ KeptPerGroup(TRUE)[1] = 0
    /\ KeptPerGroup(TRUE)[2] > 0
    /\ KeptPerGroup(TRUE)[2] < Len(self.spectrum[GroupLabels(TRUE)[2]])
    /\ Len(ret.tensor.blocks) > 0
    /\ Len(ret.tensor.blocks) < Len(self.blocks)
    /\ DOMAIN ret.carry = {GroupLabels(TRUE)[2]}

\* C10 witness for the mirror: a right compression that drops a group.
C10_WitnessRight ==
    /\ op = "right_compress"
    /\ pc = "done"
    /\ Len(GroupLabels(FALSE)) = 2
    /\ KeptPerGroup(FALSE)[2] = 0
    /\ KeptPerGroup(FALSE)[1] > 0
    /\ KeptPerGroup(FALSE)[1] < Len(self.spectrum[GroupLabels(FALSE)[1]])
    /\ Len(ret.tensor.blocks) > 0
(***************************************************************************)
(* SparseTensor.left_canonicalize() and right_canonicalize().              *)
(*                                                                         *)
(* Arrays are exact here (integers), so the calls that are explored are    *)
(* those whose stacked matrices have an integer QR factorisation: a matrix *)
(* Q0 R0 with Q0 a matrix of orthonormal integer columns and R0 upper      *)
(* triangular with a non-zero diagonal.  Such a matrix has full rank, so   *)
(* its reduced QR factorisation is unique up to the signs of the columns   *)
(* of Q (and rows of R); which signs np.linalg.qr returns is left open.    *)
(***************************************************************************)
\* The position of index o in the row-major (C) order of an array of the
\* given shape, from 0.
RECURSIVE Ravel(_, _)
Ravel(o, shape) ==
    IF o = <<>> THEN 0
    ELSE (Head(o) - 1) * Prod(Tail(shape)) + Ravel(Tail(o), Tail(shape))

RECURSIVE Unravel(_, _)
Unravel(n, shape) ==
    IF shape = <<>> THEN <<>>
    ELSE <<(n \div Prod(Tail(shape))) + 1>> \o Unravel(n % Prod(Tail(shape)), Tail(shape))

\* ndarray.reshape(shape): the same values in row-major order.
Reshape(a, shape) ==
    [shape |-> shape,
     val |-> [o \in Indices(shape) |-> a.val[Unravel(Ravel(o, shape), a.shape)]]]

\* ndarray.T of a matrix
TransposeM(m) ==
    [shape |-> <<m.shape[2], m.shape[1]>>,
     val |-> [o \in Indices(<<m.shape[2], m.shape[1]>>) |-> m.val[<<o[2], o[1]>>]]]

MatMul(a, b) == TensorDot(a, b, <<1>>, <<0>>)

\* m[from:to, :] with rows counted from 0, `to` excluded.
RowSlice(m, from, to) ==
    [shape |-> <<to - from, m.shape[2]>>,
     val |-> [o \in Indices(<<to - from, m.shape[2]>>) |-> m.val[<<o[1] + from, o[2]>>]]]

\* list(itertools.accumulate(xs)): the running sums.
accumulate(xs) == [i \in 1..Len(xs) |-> SumSeq(SubSeq(xs, 1, i))]

\* list(accumulate(l_shapes[:-1])): where np.split cuts.
SplitPoints(sizes) == accumulate(SubSeq(sizes, 1, Len(sizes) - 1))

\* np.split(m, points, axis=0): the row slices between consecutive points.
SplitRows(m, points) ==
    LET cuts == <<0>> \o points \o <<m.shape[1]>>
    IN [i \in 1..(Len(points) + 1) |-> RowSlice(m, cuts[i], cuts[i + 1])]

\* np.concatenate(ms, axis=0)
ConcatRows(ms) ==
    LET rows == [i \in 1..Len(ms) |-> ms[i].shape[1]]
        total == SumSeq(rows)
        cols == ms[1].shape[2]
        Owner(r) == CHOOSE i \in 1..Len(ms) :
                       SumSeq(SubSeq(rows, 1, i - 1)) < r /\ r <= SumSeq(SubSeq(rows, 1, i))
    IN [shape |-> <<total, cols>>,
        val |-> [o \in Indices(<<total, cols>>) |->
                   ms[Owner(o[1])].val[<<o[1] - SumSeq(SubSeq(rows, 1, Owner(o[1]) - 1)), o[2]>>]]]

\* l_shapes / r_shapes: np.prod(b.reduced.shape[:-1]) or np.prod(b.reduced.shape[1:])
FlatSizes(blocks, left) ==
    [b \in 1..Len(blocks) |->
        IF left THEN Prod(SubSeq(blocks[b].reduced.shape, 1, Len(blocks[b].reduced.shape) - 1))
        ELSE Prod(Tail(blocks[b].reduced.shape))]

\* mat: left, np.concatenate([b.reduced.reshape((sh, -1)) ...], axis=0);
\* right, np.concatenate([b.reduced.reshape((-1, sh)).T ...], axis=0).
StackedMatrix(blocks, left) ==
    LET sizes == FlatSizes(blocks, left)
    IN ConcatRows([b \in 1..Len(blocks) |->
          LET total == Prod(blocks[b].reduced.shape)
          IN IF left THEN Reshape(blocks[b].reduced, <<sizes[b], total \div sizes[b]>>)
             ELSE TransposeM(Reshape(blocks[b].reduced, <<total \div sizes[b], sizes[b]>>))])

\* The integer matrices with orthonormal columns: every column has one entry
\* 1 or -1, in a row of its own.
OrthoInt(rows, cols) ==
    {[shape |-> <<rows, cols>>,
      val |-> [o \in Indices(<<rows, cols>>) |-> IF f[o[2]] = o[1] THEN sg[o[2]] ELSE 0]] :
        f \in {g \in [1..cols -> 1..rows] : \A i, j \in 1..cols : i # j => g[i] # g[j]},
        sg \in [1..cols -> {-1, 1}]}

IsUpper(r) == \A o \in DOMAIN r.val : o[1] > o[2] => r.val[o] = 0

\* np.linalg.qr(mat, 'reduced'): q with orthonormal columns and r upper
\* triangular with q r = mat, q of shape (rows, min(rows, cols)).
QRSet(mat) ==
    {[q |-> Q, r |-> MatMul(TransposeM(Q), mat)] :
        Q \in {X \in OrthoInt(mat.shape[1], Min(mat.shape[1], mat.shape[2])) :
                  /\ IsUpper(MatMul(TransposeM(X), mat))
                  /\ MatMul(X, MatMul(TransposeM(X), mat)) = mat}}

WriteBack_Untransposed(piece, shape, left, n) ==
    Reshape(piece, IF left THEN SubSeq(shape, 1, Len(shape) - 1) \o <<n>> ELSE <<n>> \o Tail(shape))

\* b.reduced = q.reshape(b.reduced.shape[:-1] + (n, )) (left) or
\* q.T.reshape((n, ) + b.reduced.shape[1:]) (right).
WriteBack(piece, shape, left, n) ==
    IF left THEN Reshape(piece, SubSeq(shape, 1, Len(shape) - 1) \o <<n>>)
    ELSE Reshape(TransposeM(piece), <<n>> \o Tail(shape))

\* The blocks of one group after the loop `for q, b in zip(qs, blocks)`.
GroupWriteBack(blocks, left, q, n) ==
    LET qs == SplitRows(q, SplitPoints(FlatSizes(blocks, left)))
    IN [b \in 1..Len(blocks) |->
          SubTensor(blocks[b].q_labels, WriteBack(qs[b], blocks[b].reduced.shape, left, n))]

\* The collection after the call, given the factorisation fs[g] of the
\* stacked matrix of every group g: the blocks stay where they are in
\* self.blocks and get their slice of q.
CanonicalBlocks(blocks, left, fs) ==
    LET collected == Collect(blocks, left, <<>>)
        written == [g \in 1..Len(collected) |->
                      GroupWriteBack(collected[g].blocks, left, fs[g].q, fs[g].r.shape[1])]
    IN [p \in 1..Len(blocks) |->
          LET g == CHOOSE x \in 1..Len(collected) :
                      collected[x].q = BoundaryLabel(blocks[p], left)
              i == Cardinality({p2 \in 1..p :
                      BoundaryLabel(blocks[p2], left) = BoundaryLabel(blocks[p], left)})
          IN written[g][i]]

\* r_blocks_map[q_label_r] = r (left); l_blocks_map[q_label_l] = r.T (right).
CanonicalCarry(blocks, left, fs) ==
    LET collected == Collect(blocks, left, <<>>)
    IN [q \in {collected[g].q : g \in 1..Len(collected)} |->
          LET g == CHOOSE x \in 1..Len(collected) : collected[x].q = q
          IN IF left THEN fs[g].r ELSE TransposeM(fs[g].r)]

\* The factorisations np.linalg.qr can return for the groups, one per group.
RECURSIVE QRLists(_)
QRLists(mats) ==
    IF mats = <<>> THEN {<<>>}
    ELSE {<<f>> \o rest : f \in QRSet(Head(mats)), rest \in QRLists(Tail(mats))}

GroupMatrices(blocks, left) ==
    LET collected == Collect(blocks, left, <<>>)
    IN [g \in 1..Len(collected) |-> StackedMatrix(collected[g].blocks, left)]

\* An upper triangular matrix with a non-zero diagonal.
UpperOf(rows, cols, c) ==
    [shape |-> <<rows, cols>>,
     val |-> [o \in Indices(<<rows, cols>>) |-> IF o[1] > o[2] THEN 0 ELSE c + o[2] - o[1]]]

\* The stacked matrices explored for a group whose stacked matrix has the
\* given shape.
IntegerQRMatrices(rows, cols) ==
    {MatMul(Q, UpperOf(Min(rows, cols), cols, c)) :
        Q \in OrthoInt(rows, Min(rows, cols)), c \in {1, 2}}

\* One stacked matrix per group: every matrix explored for one of the groups,
\* with an upper triangular matrix for each of the others.
MatrixLists(shapes) ==
    IF shapes = <<>> THEN {<<>>}
    ELSE UNION {{[g \in 1..Len(shapes) |->
                    IF g = f THEN m
                    ELSE UpperOf(shapes[g][1], shapes[g][2], 1)] :
                 m \in IntegerQRMatrices(shapes[f][1], shapes[f][2])} :
               f \in 1..Len(shapes)}

\* The collections explored: the blocks of shapeBlocks, filled so that the
\* stacked matrix of group g is mats[g].  Entry o of a block is the entry
\* of the stacked matrix in the row of the block's flattened other legs
\* (below the rows of the group's earlier blocks) and the column of its
\* boundary leg.
Filled(shapeBlocks, left, mats) ==
    [p \in 1..Len(shapeBlocks) |->
       LET collected == Collect(shapeBlocks, left, <<>>)
           q == BoundaryLabel(shapeBlocks[p], left)
           g == CHOOSE x \in 1..Len(collected) : collected[x].q = q
           shape == shapeBlocks[p].shape
           Rows(s) == IF left THEN Prod(SubSeq(s, 1, Len(s) - 1)) ELSE Prod(Tail(s))
           before == SetSum({p2 \in 1..(p - 1) : BoundaryLabel(shapeBlocks[p2], left) = q},
                            [p2 \in 1..Len(shapeBlocks) |-> Rows(shapeBlocks[p2].shape)])
       IN SubTensor(shapeBlocks[p].q_labels,
             [shape |-> shape,
              val |-> [o \in Indices(shape) |->
                 IF left
                 THEN mats[g].val[<<before + Ravel(SubSeq(o, 1, Len(o) - 1),
                                                   SubSeq(shape, 1, Len(shape) - 1)) + 1,
                                    o[Len(o)]>>]
                 ELSE mats[g].val[<<before + Ravel(Tail(o), Tail(shape)) + 1, o[1]>>]]])]

CanonicalInputs(left) ==
    UNION {{Filled(sb, left, mats) :
               mats \in MatrixLists(
                  LET collected == Collect(sb, left, <<>>)
                  IN [g \in 1..Len(collected) |->
                        IF left THEN StackedShape(collected[g], left)
                        ELSE <<StackedShape(collected[g], left)[2],
                               StackedShape(collected[g], left)[1]>>])} :
           sb \in ShapeBlockLists}

InitCanonicalize ==
    /\ op \in {"left_canonicalize", "right_canonicalize"}
    /\ pc = "call"
    /\ \E blocks \in CanonicalInputs(op = "left_canonicalize") :
          self = [blocks |-> blocks, ftype |-> "ThreeIndexMPSTensor"]
    /\ self0 = self
    /\ args = Unused
    /\ ret = Unused

LeftCanonicalize ==
    /\ op = "left_canonicalize"
    /\ pc = "call"
    /\ \E fs \in QRLists(GroupMatrices(self.blocks, TRUE)) :
          /\ self' = [self EXCEPT !.blocks = CanonicalBlocks(self.blocks, TRUE, fs)]
          /\ ret' = CanonicalCarry(self.blocks, TRUE, fs)
    /\ pc' = "done"
    /\ UNCHANGED <<op, self0, args>>

RightCanonicalize ==
    /\ op = "right_canonicalize"
    /\ pc = "call"
    /\ \E fs \in QRLists(GroupMatrices(self.blocks, FALSE)) :
          /\ self' = [self EXCEPT !.blocks = CanonicalBlocks(self.blocks, FALSE, fs)]
          /\ ret' = CanonicalCarry(self.blocks, FALSE, fs)
    /\ pc' = "done"
    /\ UNCHANGED <<op, self0, args>>

SpecCanonicalize == InitCanonicalize /\ [][LeftCanonicalize \/ RightCanonicalize]_vars
CanonDone == op \in {"left_canonicalize", "right_canonicalize"} /\ pc = "done"

\* The positions in self.blocks of the blocks whose boundary label is q.
GroupPositions(blocks, left, q) ==
    {p \in 1..Len(blocks) : BoundaryLabel(blocks[p], left) = q}

\* The index tuples of the legs of a block that are flattened.
FlattenedIndices(block, left) ==
    Indices(IF left THEN SubSeq(block.reduced.shape, 1, Len(block.reduced.shape) - 1)
            ELSE Tail(block.reduced.shape))

\* The entry of a block at flattened index o and boundary index k.
EntryAt(block, left, o, k) ==
    block.reduced.val[IF left THEN o \o <<k>> ELSE <<k>> \o o]

BoundaryDim(block, left) ==
    IF left THEN block.reduced.shape[Len(block.reduced.shape)] ELSE block.reduced.shape[1]

\* The rows (left) or columns (right) of the stacked matrix of a group: one
\* for every block of the group and flattened index of it.
StackedLines(blocks, left, q) ==
    UNION {{<<p, o>> : o \in FlattenedIndices(blocks[p], left)} :
              p \in GroupPositions(blocks, left, q)}

\* The bond dimension after the call: the rows of R (left), columns of L.
NewBond(left, q) == IF left THEN ret[q].shape[1] ELSE ret[q].shape[2]

\* The entry of the carry matrix between new bond index k and old index j.
CarryAt(left, q, k, j) == ret[q].val[IF left THEN <<k, j>> ELSE <<j, k>>]

Orthonormal(left, q) ==
    \A k1, k2 \in 1..NewBond(left, q) :
        SetSum(StackedLines(self.blocks, left, q),
               [ln \in StackedLines(self.blocks, left, q) |->
                   EntryAt(self.blocks[ln[1]], left, ln[2], k1)
                   * EntryAt(self.blocks[ln[1]], left, ln[2], k2)])
        = IF k1 = k2 THEN 1 ELSE 0

Reproduces(left, q) ==
    \A p \in GroupPositions(self0.blocks, left, q) :
        /\ self.blocks[p].q_labels = self0.blocks[p].q_labels
        /\ FlattenedIndices(self.blocks[p], left) = FlattenedIndices(self0.blocks[p], left)
        /\ BoundaryDim(self.blocks[p], left) = NewBond(left, q)
        /\ \A o \in FlattenedIndices(self0.blocks[p], left) :
              \A j \in 1..BoundaryDim(self0.blocks[p], left) :
                 SetSum(1..NewBond(left, q),
                        [k \in 1..NewBond(left, q) |->
                            EntryAt(self.blocks[p], left, o, k) * CarryAt(left, q, k, j)])
                 = EntryAt(self0.blocks[p], left, o, j)

\* C9: after left_canonicalize, for every last-leg label q, the matrix whose
\* rows are the flattened leading legs of the updated blocks of the group has
\* orthonormal columns, and that matrix times the returned R of q is the
\* group's matrix from before the call; after right_canonicalize, for every
\* first-leg label, the rows are orthonormal and the returned L times the
\* matrix of the updated blocks is the matrix from before the call.  The
\* returned map has exactly the boundary labels of the blocks as keys.
C9_CanonicalOrthonormal ==
    CanonDone =>
        LET left == op = "left_canonicalize"
            labels == {BoundaryLabel(self0.blocks[p], left) : p \in 1..Len(self0.blocks)}
        IN /\ DOMAIN ret = labels
           /\ Len(self.blocks) = Len(self0.blocks)
           /\ \A q \in labels : Orthonormal(left, q) /\ Reproduces(left, q)

\* left_canonicalize has run on a group of two blocks of rank 3 whose
\* stacked matrix has more rows than columns and two columns, and the
\* blocks' data changed.
C9_Witness ==
    /\ CanonDone
    /\ op = "left_canonicalize"
    /\ \E q \in DOMAIN ret :
          /\ Cardinality(GroupPositions(self.blocks, TRUE, q)) = 2
          /\ ret[q].shape = <<2, 2>>
          /\ \E p \in GroupPositions(self.blocks, TRUE, q) :
                self.blocks[p].reduced # self0.blocks[p].reduced

\* right_canonicalize has run on a group of two blocks, the bond has two
\* states, and the blocks' data changed.
C9_WitnessRight ==
    /\ CanonDone
    /\ op = "right_canonicalize"
    /\ \E q \in DOMAIN ret :
          /\ Cardinality(GroupPositions(self.blocks, FALSE, q)) = 2
          /\ ret[q].shape[2] = 2
          /\ \E p \in GroupPositions(self.blocks, FALSE, q) :
                self.blocks[p].reduced # self0.blocks[p].reduced
====
